---- MODULE Spec2Model ----
(***************************************************************************)
(* Path-addressed tree model and selection algebra of the evolu / slad     *)
(* editor: path algebra (packages/slad/models/path.ts), selections         *)
(* (packages/evolu/models/selection.ts), elements                          *)
(* (packages/evolu/models/element.ts), the DOM node <-> path lookup         *)
(* (useDOMNodesPathsMap) and the editor's value replacement                *)
(* (packages/slad/index.tsx driven by the TestSetValue page).              *)
(***************************************************************************)
EXTENDS Integers, Sequences, FiniteSets, TLC

VARIABLES
    elemArg,      \* the Element argument
    elemPath,     \* the path argument of setTextElement
    elemText,     \* the text argument of setTextElement
    elemOp,       \* the element function applied last
    elemResult,   \* what it returned
    p,            \* first path argument (path1 / anchorPath / selection.anchor)
    q,            \* second path argument (path2 / focusPath / selection.focus)
    sameRef,      \* TRUE when q is the very same array object as p
    pathOp,       \* the path or selection function applied last
    pathResult,   \* what it returned, or that it threw
    nodesPathsMapRef,  \* useDOMNodesPathsMap: Map<DOMNode, PathMaybeEmpty>
    pathsNodesMapRef,  \* useDOMNodesPathsMap: Map<string, DOMNode>
    mountDiscipline,   \* history: every setDOMNodePath call so far added an
                       \* unregistered node at a free path, or removed a
                       \* node with the path it is registered under
    value,             \* TestSetValue: the state held by useState
    operations,        \* TestSetValue: operationsRef.current
    handlerValue,      \* SladEditor: the value in the closure of the
                       \* registered selectionchange listener, if any
    effectsPending,    \* the passive effects of the last commit have not run
    nodesPathsMap,     \* SladEditor: Map<Node, SladPath>
    changes,           \* history: the changes made by the last step, each
                       \* with the value it was computed from and the value
                       \* it replaced
    unresolvedEvent,   \* history: the last step was a selectionchange whose
                       \* DOM selection did not map to a selection
    moveArg,           \* the Selection argument of the move functions
    moveDeltas,        \* the offsets of the moves applied so far
    moveOp,            \* the move function applied last
    moveResult,        \* what it returned, or that it threw
    domSelection,      \* the DOM selection argument of the mapping functions
    domOp,             \* the mapping function applied last
    domResult          \* what it returned

pathVars == <<p, q, sameRef, pathOp, pathResult>>

elemVars == <<elemArg, elemPath, elemText, elemOp, elemResult>>

mapVars == <<nodesPathsMapRef, pathsNodesMapRef, mountDiscipline>>

editorVars ==
    <<value, operations, handlerValue, effectsPending, nodesPathsMap, changes,
      unresolvedEvent>>

moveVars == <<moveArg, moveDeltas, moveOp, moveResult>>

domVars == <<domSelection, domOp, domResult>>

vars == <<pathVars, elemVars, mapVars, editorVars, moveVars, domVars>>

\* what the path functions, the element functions and the lookup leave alone
notPathVars == <<elemVars, mapVars, editorVars, moveVars, domVars>>

notElemVars == <<pathVars, mapVars, editorVars, moveVars, domVars>>

notMapVars == <<pathVars, elemVars, editorVars, moveVars, domVars>>

notEditorVars == <<pathVars, elemVars, mapVars, moveVars, domVars>>

notMoveVars == <<pathVars, elemVars, mapVars, editorVars, domVars>>

notDomVars == <<pathVars, elemVars, mapVars, editorVars, moveVars>>

---------------------------------------------------------------------------
(* Bounds of the model.                                                    *)

\* longest path drawn as an input
MaxLen == 3
\* largest index drawn in an input path
MaxIndex == 2
\* most nodes below the root of an element drawn as an input
MaxNodes == 3
\* number of DOM nodes handed to setDOMNodePath
NumDOMNodes == 2
\* largest offset of a DOM selection reported by the document
MaxOffset == 1
\* largest offset, forwards or backwards, of a move
MaxDelta == 2

---------------------------------------------------------------------------
(* JavaScript values.                                                      *)

\* arr[i] of a JavaScript array, 0-based: undefined outside the array
JSAt(arr, i) ==
    IF i >= 0 /\ i < Len(arr)
    THEN [undefined |-> FALSE, value |-> arr[i + 1]]
    ELSE [undefined |-> TRUE, value |-> 0]

\* a > b taking every number for greater than undefined
JSGreaterThanUndefined(a, b) == b.undefined \/ a > b.value

\* a > b on numbers where b may be undefined (NaN comparisons are false)
JSGreater(a, b) == ~b.undefined /\ a > b.value

\* What a call did. A returned value is kept under the name of its type, so
\* that results of different functions are different records.
ReturnedBoolean(b) == [ok |-> TRUE, boolean |-> b]

ReturnedNumber(n) == [ok |-> TRUE, number |-> n]

ReturnedUndefined == [ok |-> TRUE, undefined |-> TRUE]

ReturnedPath(path) == [ok |-> TRUE, path |-> path]

ReturnedPair(first, second) == [ok |-> TRUE, first |-> first, second |-> second]

\* an object returned by a function of one object: `identical` when it is
\* the argument itself (===), not a copy
ReturnedElement(element, identical) ==
    [ok |-> TRUE, element |-> element, identical |-> identical]

ReturnedRange(range) == [ok |-> TRUE, range |-> range]

\* no call yet
NoResult == [ok |-> TRUE, nothing |-> TRUE]

\* a function that threw Error(message)
Threw(message) == [ok |-> FALSE, error |-> message]

---------------------------------------------------------------------------
(* packages/slad/models/path.ts                                            *)

PathsOfLen(n) == [1..n -> 0..MaxIndex]

\* EditorPath = readonly number[], within the bounds
Paths == UNION {PathsOfLen(n) : n \in 0..MaxLen}

\* a path as an object: its identity and its indices
PathObject(ref, indices) == [ref |-> ref, indices |-> indices]

RECURSIVE EqualLoop(_, _, _, _)
\* for (let i = 0; i < length; i++) if (path1[i] !== path2[i]) return false;
\* return true;
EqualLoop(path1, path2, i, length) ==
    IF i < length
    THEN IF JSAt(path1, i) # JSAt(path2, i)
         THEN FALSE
         ELSE EqualLoop(path1, path2, i + 1, length)
    ELSE TRUE

\* editorPathsAreEqual without its length test
EqualNoLengthTest(path1, path2) ==
    IF path1.ref = path2.ref THEN TRUE
    ELSE EqualLoop(path1.indices, path2.indices, 0, Len(path1.indices))

\* editorPathsAreEqual(path1, path2), on path objects
editorPathsAreEqual(path1, path2) ==
    IF path1.ref = path2.ref THEN TRUE
    ELSE LET length == Len(path1.indices)
         IN  IF length # Len(path2.indices) THEN FALSE
             ELSE EqualLoop(path1.indices, path2.indices, 0, length)

\* invariantPathIsNotEmpty accepting every path
InvariantAcceptsAll(path) == TRUE

\* invariant(path.length > 0, 'Path can not be empty.'): TRUE when it passes
invariantPathIsNotEmpty(path) == Len(path) > 0

\* path.slice(0, -1)
SliceDropLast(path) ==
    IF Len(path) = 0 THEN <<>> ELSE SubSeq(path, 1, Len(path) - 1)

\* parentPath keeping the last index: path.slice(0)
ParentKeepsLast(path) ==
    IF ~invariantPathIsNotEmpty(path)
    THEN Threw("Path can not be empty.")
    ELSE ReturnedPath(path)

\* parentPath(path)
parentPath(path) ==
    IF ~invariantPathIsNotEmpty(path)
    THEN Threw("Path can not be empty.")
    ELSE ReturnedPath(SliceDropLast(path))

\* lastIndex(path): path[path.length - 1]
lastIndex(path) ==
    IF ~invariantPathIsNotEmpty(path)
    THEN Threw("Path can not be empty.")
    ELSE LET last == JSAt(path, Len(path) - 1)
         IN  IF last.undefined THEN ReturnedUndefined
             ELSE ReturnedNumber(last.value)

\* parentPathAndLastIndex(path): [parentPath(path), lastIndex(path)]
parentPathAndLastIndex(path) ==
    LET parent == parentPath(path)
        last == lastIndex(path)
    IN  IF ~parent.ok THEN parent
        ELSE IF ~last.ok THEN last
        ELSE ReturnedPair(parent.path, last)

\* editorPathsAreForward(anchorPath, focusPath):
\* !anchorPath.some((value, index) => value > focusPath[index])
editorPathsAreForward(anchorPath, focusPath) ==
    ~(\E index \in 0..(Len(anchorPath) - 1) :
        JSGreater(anchorPath[index + 1], JSAt(focusPath, index)))

---------------------------------------------------------------------------
(* packages/evolu/models/selection.ts                                      *)

\* eqPath.equals(x, y) of models/path: same length, same index everywhere
eqPath(x, y) ==
    /\ Len(x) = Len(y)
    /\ \A i \in 1..Len(x) : x[i] = y[i]

\* geq(byDirection)(anchor, focus) of models/path: the path algebra's
\* forward test, no index of anchor exceeds the index of focus at its place
geqByDirection(anchor, focus) == editorPathsAreForward(anchor, focus)

\* a Selection
Selection(anchor, focus) == [anchor |-> anchor, focus |-> focus]

\* isForwardSelection(selection)
isForwardSelection(selection) ==
    geqByDirection(selection.anchor, selection.focus)

\* mapSelectionToRange(selection)
mapSelectionToRange(selection) ==
    IF isForwardSelection(selection)
    THEN [start |-> selection.anchor, end |-> selection.focus]
    ELSE [start |-> selection.focus, end |-> selection.anchor]

\* isCollapsedSelection(selection)
isCollapsedSelection(selection) == eqPath(selection.anchor, selection.focus)

\* a returned Selection, and whether it is the argument object itself
ReturnedCollapsed(selection, identical) ==
    [ok |-> TRUE, selection |-> selection, identical |-> identical]

\* a collapse that takes the anchor for the start of the range
CollapseToAnchor(selection) ==
    IF isCollapsedSelection(selection) THEN ReturnedCollapsed(selection, TRUE)
    ELSE ReturnedCollapsed(Selection(selection.anchor, selection.anchor), FALSE)

\* collapseSelectionToStart(selection)
collapseSelectionToStart(selection) ==
    IF isCollapsedSelection(selection) THEN ReturnedCollapsed(selection, TRUE)
    ELSE LET range == mapSelectionToRange(selection)
         IN  ReturnedCollapsed(Selection(range.start, range.start), FALSE)

\* collapseSelectionToEnd(selection)
collapseSelectionToEnd(selection) ==
    IF isCollapsedSelection(selection) THEN ReturnedCollapsed(selection, TRUE)
    ELSE LET range == mapSelectionToRange(selection)
         IN  ReturnedCollapsed(Selection(range.end, range.end), FALSE)

---------------------------------------------------------------------------
(* packages/evolu/models/element.ts                                        *)

\* Node = Element | Text. A Text is [text |-> string]; an Element is
\* [id |-> ElementID, children |-> sequence of Node].
TextNode(text) == [text |-> text]

ElementNode(id, children) == [id |-> id, children |-> children]

\* isText(node) of models/text
isText(node) == "text" \in DOMAIN node

\* Element.is(node)
ElementIs(node) == "children" \in DOMAIN node

\* textIsBR(text) of models/text: the empty string, rendered as BR
textIsBR(text) == text.text = ""

\* isTextNotBR(node) of models/text
isTextNotBR(node) == isText(node) /\ ~textIsBR(node)

\* isTextNotBR taking a BR for a text to merge with
IsTextMaybeBR(node) == isText(node)

RECURSIVE normalizeElement(_)
RECURSIVE NormalizeReduce(_, _, _)

\* the accumulator of the reduce of normalizeElement: the array built so far
\* and the flag somethingHasBeenNormalized
Accumulator(array, somethingHasBeenNormalized) ==
    [array |-> array, somethingHasBeenNormalized |-> somethingHasBeenNormalized]

\* the Element branch with the identity test dropped: always flags a change
ReduceElementAlwaysFlags(acc, child) ==
    Accumulator(Append(acc.array, normalizeElement(child).element), TRUE)

\* the Element branch of the reducer:
\* if (normalizedChild !== child) somethingHasBeenNormalized = true;
\* return [...array, normalizedChild];
ReduceElement(acc, child) ==
    LET normalizedChild == normalizeElement(child)
    IN  Accumulator(Append(acc.array, normalizedChild.element),
                    acc.somethingHasBeenNormalized \/ ~normalizedChild.identical)

\* the Text branch merging with any previous Text, a BR too
ReduceTextMergesBR(acc, child) ==
    IF textIsBR(child) THEN Accumulator(Append(acc.array, child),
                                        acc.somethingHasBeenNormalized)
    ELSE IF acc.array # <<>> /\ IsTextMaybeBR(acc.array[Len(acc.array)])
    THEN Accumulator(
             [acc.array EXCEPT ![Len(acc.array)] =
                 TextNode(acc.array[Len(acc.array)].text \o child.text)],
             TRUE)
    ELSE Accumulator(Append(acc.array, child), acc.somethingHasBeenNormalized)

\* the Text branch that never merges
ReduceTextNeverMerges(acc, child) ==
    Accumulator(Append(acc.array, child), acc.somethingHasBeenNormalized)

\* the Text branch that keeps previousText alone where it should append
ReduceTextDropsMerged(acc, child) ==
    IF textIsBR(child) THEN Accumulator(Append(acc.array, child),
                                        acc.somethingHasBeenNormalized)
    ELSE IF acc.array # <<>> /\ isTextNotBR(acc.array[Len(acc.array)])
    THEN Accumulator(acc.array, TRUE)
    ELSE Accumulator(Append(acc.array, child), acc.somethingHasBeenNormalized)

\* the Text branch of the reducer: a BR is kept; a Text after a Text that is
\* not a BR is appended to it (unsafeUpdateAt of the last); else it is kept
ReduceText(acc, child) ==
    IF textIsBR(child) THEN Accumulator(Append(acc.array, child),
                                        acc.somethingHasBeenNormalized)
    ELSE IF acc.array # <<>> /\ isTextNotBR(acc.array[Len(acc.array)])
    THEN Accumulator(
             [acc.array EXCEPT ![Len(acc.array)] =
                 TextNode(acc.array[Len(acc.array)].text \o child.text)],
             TRUE)
    ELSE Accumulator(Append(acc.array, child), acc.somethingHasBeenNormalized)

\* element.children.reduce(reducer, []) from child i on
NormalizeReduce(children, i, acc) ==
    IF i > Len(children) THEN acc
    ELSE NormalizeReduce(children, i + 1,
             IF ElementIs(children[i]) THEN ReduceElement(acc, children[i])
             ELSE ReduceText(acc, children[i]))

\* normalizeElement(element)
normalizeElement(element) ==
    LET reduced == NormalizeReduce(element.children, 1, Accumulator(<<>>, FALSE))
    IN  IF ~reduced.somethingHasBeenNormalized
        THEN ReturnedElement(element, TRUE)
        ELSE ReturnedElement(ElementNode(element.id, reduced.array), FALSE)

\* isNormalizedElement(element): element === normalizeElement(element)
isNormalizedElement(element) == normalizeElement(element).identical

\* getChildAt(index): indexArray<Node>().index(index), its getOption
getChildAt(index, children) ==
    IF index >= 0 /\ index < Len(children)
    THEN [some |-> TRUE, value |-> children[index + 1]]
    ELSE [some |-> FALSE]

\* elementPrism.getOption(node) is some
elementPrism(node) == ElementIs(node)

\* a prism that lets every node through
PrismAcceptsAll(node) == TRUE

\* textPrism.getOption(node) is some
textPrism(node) == isText(node)

\* a set that builds the element anew, without its id
ChildrenLensSetDropsID(children, el) == ElementNode(<<>>, children)

\* childrenLens.set(children)(element)
childrenLensSet(children, el) == ElementNode(el.id, children)

\* initNonEmptyPath(path) of models/path: all but the last index
initNonEmptyPath(path) == SubSeq(path, 1, Len(path) - 1)

RECURSIVE TraversalSet(_, _, _, _)
\* getElementTraversal(elementPath) composed with childrenLens,
\* getChildAt(textIndex) and textPrism, its set(text) on an Element: every
\* step whose getOption is none, or whose focus comes back identical, returns
\* its argument itself
TraversalSet(elementPath, textIndex, text, el) ==
    IF elementPath = <<>>
    THEN LET child == getChildAt(textIndex, el.children)
         IN  IF ~child.some THEN ReturnedElement(el, TRUE)
             ELSE IF ~textPrism(child.value) THEN ReturnedElement(el, TRUE)
             ELSE IF child.value = TextNode(text) THEN ReturnedElement(el, TRUE)
             ELSE ReturnedElement(
                      childrenLensSet(
                          [el.children EXCEPT ![textIndex + 1] = TextNode(text)],
                          el),
                      FALSE)
    ELSE LET child == getChildAt(Head(elementPath), el.children)
         IN  IF ~child.some THEN ReturnedElement(el, TRUE)
             ELSE IF ~elementPrism(child.value) THEN ReturnedElement(el, TRUE)
             ELSE LET inner == TraversalSet(Tail(elementPath), textIndex,
                                            text, child.value)
                  IN  IF inner.identical THEN ReturnedElement(el, TRUE)
                      ELSE ReturnedElement(
                               childrenLensSet(
                                   [el.children EXCEPT
                                       ![Head(elementPath) + 1] = inner.element],
                                   el),
                               FALSE)

\* setTextElement({ text, path })(element):
\* pipe(element, getTextTraversal(path).set(text))
setTextElement(text, path, el) ==
    TraversalSet(initNonEmptyPath(path), path[Len(path)], text, el)

---------------------------------------------------------------------------
(* useDOMNodesPathsMap: the mapping between DOM nodes and paths.           *)

\* the characters of the decimal digits
DigitChars == <<"0", "1", "2", "3", "4", "5", "6", "7", "8", "9">>

RECURSIVE NumberToString(_)
\* String(n) of a non-negative integer, as its sequence of characters
NumberToString(n) ==
    IF n < 10 THEN <<DigitChars[n + 1]>>
    ELSE NumberToString(n \div 10) \o <<DigitChars[(n % 10) + 1]>>

RECURSIVE JoinWith(_, _)
\* path.join(separator), as its sequence of characters
JoinWith(path, separator) ==
    IF path = <<>> THEN <<>>
    ELSE IF Len(path) = 1 THEN NumberToString(path[1])
    ELSE NumberToString(path[1]) \o separator \o JoinWith(Tail(path), separator)

\* path.join('') : the indices run together
JoinNoSeparator(path) == JoinWith(path, <<>>)

\* path.join(): the key of pathsNodesMapRef
join(path) == JoinWith(path, <<",">>)

\* Map.prototype.set(key, value)
MapSet(map, key, v) ==
    [k \in DOMAIN map \cup {key} |-> IF k = key THEN v ELSE map[k]]

\* Map.prototype.delete(key)
MapDelete(map, key) == [k \in DOMAIN map \ {key} |-> map[k]]

\* fromNullable(map.get(key))
MapGet(map, key) ==
    IF key \in DOMAIN map THEN [some |-> TRUE, value |-> map[key]]
    ELSE [some |-> FALSE]

\* getDOMNodeByPath(path)
getDOMNodeByPath(path) == MapGet(pathsNodesMapRef, join(path))

\* getPathByDOMNode(node)
getPathByDOMNode(node) == MapGet(nodesPathsMapRef, node)

\* the DOM nodes and the paths handed to setDOMNodePath
DOMNodes == 1..NumDOMNodes

MapPaths == {<<>>, <<0>>, <<1, 1>>, <<11>>}

MapIdle ==
    /\ nodesPathsMapRef = <<>>
    /\ pathsNodesMapRef = <<>>
    /\ mountDiscipline = FALSE

---------------------------------------------------------------------------
(* SladEditor rendered by TestSetValue: values, operations, DOM selections *)

None == [some |-> FALSE]

Some(x) == [some |-> TRUE, value |-> x]

ReturnedSelection(selection) == [ok |-> TRUE, selection |-> selection]

\* movePath(offset)(path): the last index shifted by offset
movePath(offset, path) ==
    LET moved == path[Len(path)] + offset
    IN  IF moved < 0 THEN Threw("NegativePathError")
        ELSE ReturnedPath([path EXCEPT ![Len(path)] = moved])

\* moveSelectionAnchor(offset)(selection)
moveSelectionAnchor(offset, selection) ==
    LET anchor == movePath(offset, selection.anchor)
    IN  IF ~anchor.ok THEN anchor
        ELSE ReturnedSelection([selection EXCEPT !.anchor = anchor.path])

\* moveSelectionFocus moving the focus one index further than asked
MoveFocusOneFurther(offset, selection) ==
    LET focus == movePath(offset + 1, selection.focus)
    IN  IF ~focus.ok THEN focus
        ELSE ReturnedSelection([selection EXCEPT !.focus = focus.path])

\* moveSelectionFocus(offset)(selection)
moveSelectionFocus(offset, selection) ==
    LET focus == movePath(offset, selection.focus)
    IN  IF ~focus.ok THEN focus
        ELSE ReturnedSelection([selection EXCEPT !.focus = focus.path])

\* moveSelection moving the anchor only
MoveAnchorOnly(offset, selection) == moveSelectionAnchor(offset, selection)

\* moveSelection(offset)(selection): the anchor, then the focus
moveSelection(offset, selection) ==
    LET moved == moveSelectionAnchor(offset, selection)
    IN  IF ~moved.ok THEN moved
        ELSE moveSelectionFocus(offset, moved.selection)

Value(element, hasFocus, selection) ==
    [element |-> element, hasFocus |-> hasFocus, selection |-> selection]

\* createValue({ element: <div><div>heading</div><div>paragraph</div></div>,
\* hasFocus: true })
initialValue ==
    Value(ElementNode(<<>>,
                      <<ElementNode(<<0>>, <<TextNode("heading")>>),
                        ElementNode(<<1>>, <<TextNode("paragraph")>>)>>),
          TRUE, None)

\* hasSelection(value)
hasSelection(v) == v.selection.some

\* setText(text) on a value: setTextElement at the first text, then
\* normalizeElement
setText(text, v) ==
    [v EXCEPT !.element =
        normalizeElement(setTextElement(text, <<0, 0>>, @).element).element]

\* select(selection) on a value
select(selection, v) == [v EXCEPT !.selection = Some(selection)]

\* move(offset) on a value
move(offset, v) ==
    IF ~hasSelection(v) THEN v
    ELSE [v EXCEPT
             !.selection = Some(moveSelection(offset, @.value).selection)]

\* reverse of fp-ts/lib/Array
reverse(array) == [i \in 1..Len(array) |-> array[Len(array) + 1 - i]]

\* elementLens.composeLens(childrenLens).modify(f), for the two f of the test
modifyChildren(f, v) ==
    LET children == v.element.children
    IN  [v EXCEPT !.element.children =
            IF f = "reverse" THEN reverse(children)
            ELSE SubSeq(children, 1, IF Len(children) < 1 THEN 0 ELSE 1)]

\* the initial operationsRef.current
initialOperations == <<"setText", "select", "move", "reverse", "slice">>

\* operation(value)
ApplyOperation(operation, v) ==
    CASE operation = "setText" -> setText("foo", v)
      [] operation = "select" ->
             select(Selection(<<0, 0, 0>>, <<0, 0, 2>>), v)
      [] operation = "move" -> move(1, v)
      [] operation = "reverse" -> modifyChildren("reverse", v)
      [] operation = "slice" -> modifyChildren("slice", v)

\* the DOM node rendered at a position of the tree, and a node of the
\* document that the editor did not render
DOMNodeAt(path) == [at |-> path]

OutsideNode == [outside |-> TRUE]

RECURSIVE PositionsOf(_, _)
\* the positions of a node and of the nodes below it
PositionsOf(node, path) ==
    IF isText(node) THEN {path}
    ELSE {path} \cup UNION {PositionsOf(node.children[i], path \o <<i - 1>>) :
                               i \in 1..Len(node.children)}

\* nodesPathsMap after the refs of a commit: setNodePath(node, null) for the
\* nodes taken out, setNodePath(node, path) for the nodes rendered
NodesPathsAfterCommit(element) ==
    [node \in {DOMNodeAt(path) : path \in PositionsOf(element, <<>>)}
        |-> node.at]

NullSelection == [null |-> TRUE]

\* a DOM Selection; anchorNode and focusNode are a node or null
DOMSelection(anchorNode, anchorOffset, focusNode, focusOffset) ==
    [anchorNode |-> anchorNode, anchorOffset |-> anchorOffset,
     focusNode |-> focusNode, focusOffset |-> focusOffset]

\* mapSelectionToSladSelection(selection)
mapSelectionToSladSelection(selection) ==
    IF "null" \in DOMAIN selection THEN None
    ELSE IF ~selection.anchorNode.some \/ ~selection.focusNode.some THEN None
    ELSE LET anchorPath == MapGet(nodesPathsMap, selection.anchorNode.value)
             focusPath == MapGet(nodesPathsMap, selection.focusNode.value)
         IN  IF ~anchorPath.some \/ ~focusPath.some THEN None
             ELSE Some(Selection(anchorPath.value \o <<selection.anchorOffset>>,
                                 focusPath.value \o <<selection.focusOffset>>))

\* snoc(path, index) of fp-ts/lib/Array
snoc(path, index) == Append(path, index)

\* mapDOMSelectionToSelection with anchorOffset and focusOffset exchanged
MapDOMSelectionOffsetsExchanged(getPathByNode, selection) ==
    LET anchorPath == IF selection.anchorNode.some
                      THEN getPathByNode[selection.anchorNode.value] ELSE None
        focusPath == IF selection.focusNode.some
                     THEN getPathByNode[selection.focusNode.value] ELSE None
    IN  IF ~anchorPath.some \/ ~focusPath.some THEN None
        ELSE Some(Selection(snoc(anchorPath.value, selection.focusOffset),
                            snoc(focusPath.value, selection.anchorOffset)))

\* mapDOMSelectionToSelection(getPathByNode)(selection); getPathByNode as
\* the function from nodes to Option<Path>
mapDOMSelectionToSelection(getPathByNode, selection) ==
    LET anchorPath == IF selection.anchorNode.some
                      THEN getPathByNode[selection.anchorNode.value] ELSE None
        focusPath == IF selection.focusNode.some
                     THEN getPathByNode[selection.focusNode.value] ELSE None
    IN  IF ~anchorPath.some \/ ~focusPath.some THEN None
        ELSE Some(Selection(snoc(anchorPath.value, selection.anchorOffset),
                            snoc(focusPath.value, selection.focusOffset)))

\* produce(value, draft => { draft.selection = ... }): the base itself when
\* the draft was not modified
produceSelection(base, sladSelection) ==
    [value |-> [base EXCEPT !.selection = sladSelection],
     identical |-> ~sladSelection.some /\ ~base.selection.some]

Change(base, previous, next) ==
    [base |-> base, previous |-> previous, next |-> next]

\* the passive effects of a commit that rendered v: the selectionchange
\* listener is registered anew, then TestSetValue applies the next operation
RunPassiveEffects(v, remaining) ==
    IF hasSelection(v) /\ remaining # <<>>
    THEN LET nextValue == ApplyOperation(Head(remaining), v)
         IN  [handlerValue |-> Some(v), value |-> nextValue,
              operations |-> Tail(remaining),
              changes |-> <<Change(v, v, nextValue)>>, rendered |-> TRUE]
    ELSE [handlerValue |-> Some(v), value |-> v, operations |-> remaining,
          changes |-> <<>>, rendered |-> FALSE]

\* the DOM selections the document reports
SelectableNodes == {DOMNodeAt(<<0, 0>>), OutsideNode}

DOMSelections ==
    {NullSelection} \cup
    {DOMSelection(Some(anchorNode), anchorOffset,
                  Some(focusNode), focusOffset) :
        anchorNode \in SelectableNodes, anchorOffset \in 0..MaxOffset,
        focusNode \in SelectableNodes, focusOffset \in 0..MaxOffset}

EditorIdle ==
    /\ value = initialValue
    /\ operations = <<>>
    /\ handlerValue = None
    /\ effectsPending = FALSE
    /\ nodesPathsMap = <<>>
    /\ changes = <<>>
    /\ unresolvedEvent = FALSE

\* the selections drawn as arguments of the move functions: anchor and focus
\* below one of a few parents, as in select({anchor: [0, 0, 0], focus:
\* [0, 0, 2]})
MoveParents == {<<>>, <<0, 0>>, <<1>>}

MoveSelections ==
    {Selection(anchorParent \o <<anchorLast>>, focusParent \o <<focusLast>>) :
        anchorParent \in MoveParents, anchorLast \in 0..MaxIndex,
        focusParent \in MoveParents, focusLast \in 0..MaxIndex}

Deltas == (0 - MaxDelta)..MaxDelta

MoveIdle ==
    /\ moveArg = Selection(<<0>>, <<0>>)
    /\ moveDeltas = <<>>
    /\ moveOp = "idle"
    /\ moveResult = NoResult

DomIdle ==
    /\ domSelection = NullSelection
    /\ domOp = "idle"
    /\ domResult = None

---------------------------------------------------------------------------
(* The elements drawn as arguments: every tree of at most MaxNodes nodes   *)
(* below the root, with texts from Texts. An element's id is unique in the *)
(* tree (here: the place where it was created).                            *)

Texts == {"", "a", "b"}

NewTexts == {"a", "foo"}

RECURSIVE NodesOfSize(_)
RECURSIVE Forests(_)

\* the nodes of n nodes in all, ids not yet given
NodesOfSize(n) ==
    IF n = 1
    THEN {TextNode(t) : t \in Texts} \cup {ElementNode(<<>>, <<>>)}
    ELSE {ElementNode(<<>>, f) : f \in Forests(n - 1)}

\* the sequences of nodes of n nodes in all
Forests(n) ==
    IF n = 0 THEN {<<>>}
    ELSE UNION {{<<x>> \o f : x \in NodesOfSize(k), f \in Forests(n - k)} :
                    k \in 1..n}

RECURSIVE WithIDs(_, _)
\* node with every element given the id `path`, its place
WithIDs(node, path) ==
    IF isText(node) THEN node
    ELSE ElementNode(path,
             [i \in 1..Len(node.children) |->
                 WithIDs(node.children[i], Append(path, i - 1))])

Elements ==
    {WithIDs(ElementNode(<<>>, f), <<>>) :
        f \in UNION {Forests(n) : n \in 0..MaxNodes}}

\* NonEmptyPath, within the bounds
NonEmptyPaths == Paths \ {<<>>}

PathIdle ==
    /\ p = <<>>
    /\ q = <<>>
    /\ sameRef = FALSE
    /\ pathOp = "idle"
    /\ pathResult = NoResult

ElemIdle ==
    /\ elemArg = ElementNode(<<>>, <<>>)
    /\ elemPath = <<>>
    /\ elemText = ""
    /\ elemOp = "idle"
    /\ elemResult = NoResult

ElemInit ==
    /\ elemArg \in Elements
    /\ elemPath = <<>>
    /\ elemText = ""
    /\ elemOp = "none"
    /\ elemResult = NoResult
    /\ PathIdle
    /\ MapIdle
    /\ EditorIdle
    /\ MoveIdle
    /\ DomIdle

CallNormalizeElement ==
    /\ elemOp = "none"
    /\ elemOp' = "normalizeElement"
    /\ elemResult' = normalizeElement(elemArg)
    /\ UNCHANGED <<elemArg, elemPath, elemText, notElemVars>>

\* normalizeElement applied to what normalizeElement returned
CallNormalizeElementAgain ==
    /\ elemOp = "normalizeElement"
    /\ elemOp' = "normalizeElement twice"
    /\ elemResult' = normalizeElement(elemResult.element)
    /\ UNCHANGED <<elemArg, elemPath, elemText, notElemVars>>

CallIsNormalizedElement ==
    /\ elemOp = "none"
    /\ elemOp' = "isNormalizedElement"
    /\ elemResult' = ReturnedBoolean(isNormalizedElement(elemArg))
    /\ UNCHANGED <<elemArg, elemPath, elemText, notElemVars>>

CallSetTextElement ==
    /\ elemOp = "none"
    /\ \E path \in NonEmptyPaths, text \in NewTexts :
          /\ elemPath' = path
          /\ elemText' = text
          /\ elemResult' = setTextElement(text, path, elemArg)
    /\ elemOp' = "setTextElement"
    /\ UNCHANGED <<elemArg, notElemVars>>

ElemNext ==
    \/ CallNormalizeElement
    \/ CallNormalizeElementAgain
    \/ CallIsNormalizedElement
    \/ CallSetTextElement

SpecElement == ElemInit /\ [][ElemNext]_vars

---------------------------------------------------------------------------
(* Claims about normalizeElement and setTextElement.                       *)

RECURSIVE HasAdjacentTexts(_)
\* some element of the subtree has two adjacent children that are both
\* non-empty Text
HasAdjacentTexts(node) ==
    /\ ElementIs(node)
    /\ \/ \E i \in 1..(Len(node.children) - 1) :
             /\ isText(node.children[i]) /\ node.children[i].text # ""
             /\ isText(node.children[i + 1]) /\ node.children[i + 1].text # ""
       \/ \E i \in 1..Len(node.children) : HasAdjacentTexts(node.children[i])

RECURSIVE ResolvesToText(_, _)
\* path, followed from node, ends at a Text
ResolvesToText(node, path) ==
    IF path = <<>> THEN isText(node)
    ELSE /\ ElementIs(node)
         /\ path[1] < Len(node.children)
         /\ ResolvesToText(node.children[path[1] + 1], Tail(path))

\* C5: normalizeElement applied to the result of normalizeElement returns
\* that very object (reference-equal), for every element.
C5_NormalizeTwiceIsIdentical ==
    elemOp = "normalizeElement twice" => elemResult.identical

C5_Witness ==
    /\ elemOp = "normalizeElement twice"
    /\ elemArg = ElementNode(<<>>,
           <<ElementNode(<<0>>, <<TextNode("a"), TextNode("b")>>)>>)
    /\ elemResult = ReturnedElement(
           ElementNode(<<>>, <<ElementNode(<<0>>, <<TextNode("ab")>>)>>), TRUE)

\* C6: normalizeElement(E) returns E itself, and isNormalizedElement(E) is
\* true, exactly when no element of E's subtree has two adjacent non-empty
\* Text children; otherwise it returns a different object.
C6_IdenticalIffNothingToMerge ==
    /\ elemOp = "normalizeElement" =>
           /\ elemResult.identical <=> ~HasAdjacentTexts(elemArg)
           /\ elemResult.identical => elemResult.element = elemArg
    /\ elemOp = "isNormalizedElement" =>
           (elemResult.boolean <=> ~HasAdjacentTexts(elemArg))

C6_Witness ==
    /\ elemOp = "normalizeElement"
    /\ elemArg = ElementNode(<<>>,
           <<TextNode("a"), TextNode(""), TextNode("b")>>)
    /\ elemResult.identical

\* C7: setTextElement({text, path}) returns the very same element whenever
\* path does not resolve to a Text: an index out of range, a Text where an
\* Element is required, or an Element at the final index.
C7_SetTextMissReturnsSameElement ==
    (elemOp = "setTextElement" /\ ~ResolvesToText(elemArg, elemPath)) =>
        /\ elemResult.ok
        /\ elemResult.identical
        /\ elemResult.element = elemArg

C7_Witness ==
    /\ elemOp = "setTextElement"
    /\ elemArg = ElementNode(<<>>,
           <<ElementNode(<<0>>, <<>>), TextNode("a")>>)
    /\ elemPath = <<0>>
    /\ elemText = "foo"
    /\ elemResult.identical

RECURSIVE Outline(_)
\* the children of an element with every run of adjacent non-empty Text
\* taken as one item, every empty Text as an item of its own, and every
\* element as the outline of its children
Outline(node) ==
    LET kids == node.children
        Item(i) ==
            IF ElementIs(kids[i]) THEN [element |-> Outline(kids[i])]
            ELSE IF kids[i].text = "" THEN [br |-> TRUE]
            ELSE [run |-> TRUE]
        StartsItem(i) ==
            \/ i = 1
            \/ ~isText(kids[i]) \/ kids[i].text = ""
            \/ ~isText(kids[i - 1]) \/ kids[i - 1].text = ""
        starts == {i \in 1..Len(kids) : StartsItem(i)}
        Nth(n) == CHOOSE i \in starts :
                      Cardinality({j \in starts : j < i}) = n - 1
    IN  [n \in 1..Cardinality(starts) |-> Item(Nth(n))]

\* C17: in normalizeElement's result no element at any depth has two
\* adjacent non-empty Text children, and every empty Text child of the
\* argument is still a child of its own at the same place among the runs of
\* text and the elements around it.
C17_NoAdjacentTextsAndBRsKept ==
    elemOp = "normalizeElement" =>
        /\ ~HasAdjacentTexts(elemResult.element)
        /\ Outline(elemResult.element) = Outline(elemArg)

C17_Witness ==
    /\ elemOp = "normalizeElement"
    /\ elemArg = ElementNode(<<>>,
           <<TextNode("a"), TextNode("b"), TextNode("")>>)
    /\ elemResult = ReturnedElement(
           ElementNode(<<>>, <<TextNode("ab"), TextNode("")>>), FALSE)

RECURSIVE NodeAt(_, _)
\* the node that path, followed from node, ends at
NodeAt(node, path) ==
    IF path = <<>> THEN node
    ELSE NodeAt(node.children[path[1] + 1], Tail(path))

\* a is b or b cut short
IsPrefix(a, b) == Len(a) <= Len(b) /\ SubSeq(b, 1, Len(a)) = a

\* C18: when path resolves to a Text of E, setTextElement({text, path})(E)
\* has text at path and is E everywhere else: the same positions, every
\* element with its id and its number of children, every node off the way
\* from the root to path unchanged; and it is E itself when the text at path
\* was text already.
C18_SetTextChangesOnlyThePath ==
    (elemOp = "setTextElement" /\ ResolvesToText(elemArg, elemPath)) =>
        LET result == elemResult.element
            positions == PositionsOf(elemArg, <<>>)
        IN  /\ elemResult.ok
            /\ PositionsOf(result, <<>>) = positions
            /\ NodeAt(result, elemPath) = TextNode(elemText)
            /\ \A pos \in positions :
                   ElementIs(NodeAt(elemArg, pos)) =>
                       /\ ElementIs(NodeAt(result, pos))
                       /\ NodeAt(result, pos).id = NodeAt(elemArg, pos).id
                       /\ Len(NodeAt(result, pos).children) =
                              Len(NodeAt(elemArg, pos).children)
            /\ \A pos \in positions :
                   ~IsPrefix(pos, elemPath) =>
                       NodeAt(result, pos) = NodeAt(elemArg, pos)
            /\ NodeAt(elemArg, elemPath) = TextNode(elemText) =>
                   elemResult.identical /\ result = elemArg

C18_Witness ==
    /\ elemOp = "setTextElement"
    /\ elemArg = ElementNode(<<>>,
           <<ElementNode(<<0>>, <<TextNode("a")>>), TextNode("b")>>)
    /\ elemPath = <<0, 0>>
    /\ elemText = "foo"
    /\ elemResult = ReturnedElement(
           ElementNode(<<>>,
               <<ElementNode(<<0>>, <<TextNode("foo")>>), TextNode("b")>>),
           FALSE)

RECURSIVE DocumentOrder(_)
RECURSIVE DocumentOrderOfChildren(_, _)
\* two runs of tokens joined, a Text at the seam joined to the Text before it
JoinTokens(left, right) ==
    IF left # <<>> /\ right # <<>>
           /\ isText(left[Len(left)]) /\ isText(right[1])
    THEN SubSeq(left, 1, Len(left) - 1)
             \o <<TextNode(left[Len(left)].text \o right[1].text)>>
             \o Tail(right)
    ELSE left \o right

\* the content of a node in document order: where each element opens and
\* closes, and the text in between
DocumentOrder(node) ==
    IF isText(node)
    THEN IF node.text = "" THEN <<>> ELSE <<node>>
    ELSE <<[open |-> node.id]>>
             \o DocumentOrderOfChildren(node.children, 1)
             \o <<[close |-> node.id]>>

DocumentOrderOfChildren(children, i) ==
    IF i > Len(children) THEN <<>>
    ELSE JoinTokens(DocumentOrder(children[i]),
                    DocumentOrderOfChildren(children, i + 1))

\* C19: normalizeElement loses and reorders nothing: the text in document
\* order and the elements, with their ids, nesting and order, are the same
\* in normalizeElement(E) as in E.
C19_NormalizeKeepsContentAndElements ==
    elemOp = "normalizeElement" =>
        DocumentOrder(elemResult.element) = DocumentOrder(elemArg)

C19_Witness ==
    /\ elemOp = "normalizeElement"
    /\ elemArg = ElementNode(<<>>,
           <<TextNode("b"), TextNode("a"), ElementNode(<<2>>, <<>>)>>)
    /\ elemResult = ReturnedElement(
           ElementNode(<<>>, <<TextNode("ba"), ElementNode(<<2>>, <<>>)>>),
           FALSE)

---------------------------------------------------------------------------
(* The path functions applied to drawn arguments.                          *)

PathInit ==
    /\ p \in Paths
    /\ q \in Paths
    /\ sameRef \in BOOLEAN
    /\ sameRef => q = p
    /\ pathOp = "none"
    /\ pathResult = NoResult
    /\ ElemIdle
    /\ MapIdle
    /\ EditorIdle
    /\ MoveIdle
    /\ DomIdle

\* one call, once: the arguments stay as drawn
CallEditorPathsAreEqual ==
    /\ pathOp = "none"
    /\ pathOp' = "editorPathsAreEqual"
    /\ pathResult' = ReturnedBoolean(editorPathsAreEqual(
           PathObject(1, p), PathObject(IF sameRef THEN 1 ELSE 2, q)))
    /\ UNCHANGED <<p, q, sameRef, notPathVars>>

CallParentPath ==
    /\ pathOp = "none"
    /\ pathOp' = "parentPath"
    /\ pathResult' = parentPath(p)
    /\ UNCHANGED <<p, q, sameRef, notPathVars>>

CallLastIndex ==
    /\ pathOp = "none"
    /\ pathOp' = "lastIndex"
    /\ pathResult' = lastIndex(p)
    /\ UNCHANGED <<p, q, sameRef, notPathVars>>

CallParentPathAndLastIndex ==
    /\ pathOp = "none"
    /\ pathOp' = "parentPathAndLastIndex"
    /\ pathResult' = parentPathAndLastIndex(p)
    /\ UNCHANGED <<p, q, sameRef, notPathVars>>

CallEditorPathsAreForward ==
    /\ pathOp = "none"
    /\ pathOp' = "editorPathsAreForward"
    /\ pathResult' = ReturnedBoolean(editorPathsAreForward(p, q))
    /\ UNCHANGED <<p, q, sameRef, notPathVars>>

\* Selection.anchor and Selection.focus are NonEmptyPath
CallIsForwardSelection ==
    /\ pathOp = "none"
    /\ p # <<>> /\ q # <<>>
    /\ pathOp' = "isForwardSelection"
    /\ pathResult' = ReturnedBoolean(isForwardSelection(Selection(p, q)))
    /\ UNCHANGED <<p, q, sameRef, notPathVars>>

CallMapSelectionToRange ==
    /\ pathOp = "none"
    /\ p # <<>> /\ q # <<>>
    /\ pathOp' = "mapSelectionToRange"
    /\ pathResult' = ReturnedRange(mapSelectionToRange(Selection(p, q)))
    /\ UNCHANGED <<p, q, sameRef, notPathVars>>

\* collapseSelectionToStart({anchor: p, focus: q})
CallCollapseSelectionToStart ==
    /\ pathOp = "none"
    /\ p # <<>> /\ q # <<>>
    /\ pathOp' = "collapseSelectionToStart"
    /\ pathResult' = collapseSelectionToStart(Selection(p, q))
    /\ UNCHANGED <<p, q, sameRef, notPathVars>>

\* collapseSelectionToEnd({anchor: p, focus: q})
CallCollapseSelectionToEnd ==
    /\ pathOp = "none"
    /\ p # <<>> /\ q # <<>>
    /\ pathOp' = "collapseSelectionToEnd"
    /\ pathResult' = collapseSelectionToEnd(Selection(p, q))
    /\ UNCHANGED <<p, q, sameRef, notPathVars>>

\* collapseSelectionToStart applied to what collapseSelectionToStart returned
CallCollapseSelectionToStartAgain ==
    /\ pathOp = "collapseSelectionToStart"
    /\ pathOp' = "collapseSelectionToStart twice"
    /\ pathResult' =
           ReturnedPair(pathResult,
                        collapseSelectionToStart(pathResult.selection))
    /\ UNCHANGED <<p, q, sameRef, notPathVars>>

\* collapseSelectionToEnd applied to what collapseSelectionToEnd returned
CallCollapseSelectionToEndAgain ==
    /\ pathOp = "collapseSelectionToEnd"
    /\ pathOp' = "collapseSelectionToEnd twice"
    /\ pathResult' =
           ReturnedPair(pathResult,
                        collapseSelectionToEnd(pathResult.selection))
    /\ UNCHANGED <<p, q, sameRef, notPathVars>>

PathNext ==
    \/ CallEditorPathsAreEqual
    \/ CallParentPath
    \/ CallLastIndex
    \/ CallParentPathAndLastIndex
    \/ CallEditorPathsAreForward
    \/ CallIsForwardSelection
    \/ CallMapSelectionToRange
    \/ CallCollapseSelectionToStart
    \/ CallCollapseSelectionToEnd
    \/ CallCollapseSelectionToStartAgain
    \/ CallCollapseSelectionToEndAgain

SpecPath == PathInit /\ [][PathNext]_vars

---------------------------------------------------------------------------
(* Claims about the path algebra and the selection direction.              *)

RECURSIVE LexLeq(_, _)
\* a <= b in lexicographic-by-index order
LexLeq(a, b) ==
    IF a = <<>> THEN TRUE
    ELSE IF b = <<>> THEN FALSE
    ELSE IF a[1] < b[1] THEN TRUE
    ELSE IF a[1] > b[1] THEN FALSE
    ELSE LexLeq(Tail(a), Tail(b))

\* C3: the forward test (editorPathsAreForward, isForwardSelection) is true
\* exactly when anchor <= focus in lexicographic-by-index order.
C3_ForwardIffLexLeq ==
    pathOp \in {"editorPathsAreForward", "isForwardSelection"}
        => pathResult.boolean = LexLeq(p, q)

\* C4: mapSelectionToRange(S) is {anchor, focus} reordered with start not
\* after end under the forward test, it is the same for S and for S with
\* anchor and focus swapped, and swapping a non-collapsed S flips
\* isForwardSelection.
C4_RangeIsOrderedAndSymmetric ==
    pathOp = "mapSelectionToRange" =>
        LET range == pathResult.range
            selection == Selection(p, q)
            swapped == Selection(q, p)
        IN  /\ \/ range = [start |-> p, end |-> q]
               \/ range = [start |-> q, end |-> p]
            /\ editorPathsAreForward(range.start, range.end)
            /\ mapSelectionToRange(swapped) = range
            /\ ~isCollapsedSelection(selection)
                   => isForwardSelection(swapped) # isForwardSelection(selection)

\* C8: for a non-empty path P, parentPath(P) with lastIndex(P) appended is
\* P, and parentPathAndLastIndex(P) is the pair [parentPath(P), lastIndex(P)].
C8_ParentLastRoundTrip ==
    /\ (pathOp = "parentPath" /\ p # <<>>) =>
           /\ pathResult.ok
           /\ Append(pathResult.path, p[Len(p)]) = p
    /\ (pathOp = "lastIndex" /\ p # <<>>) =>
           /\ pathResult.ok
           /\ pathResult.number = p[Len(p)]
    /\ (pathOp = "parentPathAndLastIndex" /\ p # <<>>) =>
           /\ pathResult.ok
           /\ pathResult.second.ok
           /\ Append(pathResult.first, pathResult.second.number) = p
           /\ pathResult.first = parentPath(p).path
           /\ pathResult.second = lastIndex(p)

C8_Witness ==
    /\ pathOp = "parentPathAndLastIndex"
    /\ p = <<0, 1, 2>>
    /\ pathResult = ReturnedPair(<<0, 1>>, ReturnedNumber(2))

\* C9: parentPath, lastIndex and parentPathAndLastIndex fail with an error
\* on the empty path and return a value on every non-empty path.
C9_FailExactlyOnEmptyPath ==
    pathOp \in {"parentPath", "lastIndex", "parentPathAndLastIndex"} =>
        /\ p = <<>> => pathResult = Threw("Path can not be empty.")
        /\ p # <<>> => pathResult.ok

C9_Witness ==
    /\ pathOp = "parentPathAndLastIndex"
    /\ p = <<>>
    /\ ~pathResult.ok

\* C10: editorPathsAreEqual(P, Q) is true exactly when P and Q have the
\* same length and the same index at every position, whether or not Q is
\* the same object as P.
C10_EqualIffSameIndices ==
    pathOp = "editorPathsAreEqual" =>
        pathResult.boolean =
            (/\ Len(p) = Len(q)
             /\ \A i \in 1..Len(p) : p[i] = q[i])

C10_Witness ==
    /\ pathOp = "editorPathsAreEqual"
    /\ ~sameRef
    /\ p = <<0, 1>>
    /\ q = <<0, 1, 0>>
    /\ pathResult.boolean = FALSE

\* a is b cut short
IsStrictPrefix(a, b) == Len(a) < Len(b) /\ SubSeq(b, 1, Len(a)) = a

\* C16: editorPathsAreForward(anchor, focus) is true exactly when
\* anchor[i] <= focus[i] at every position both paths have; so it is true, in
\* both argument orders, when one path is a strict prefix of the other.
C16_ForwardIsPointwiseOnCommonPositions ==
    pathOp = "editorPathsAreForward" =>
        LET common == IF Len(p) < Len(q) THEN Len(p) ELSE Len(q)
        IN  /\ pathResult.boolean = (\A i \in 1..common : p[i] <= q[i])
            /\ (IsStrictPrefix(p, q) \/ IsStrictPrefix(q, p)) =>
                   pathResult.boolean

C16_Witness ==
    /\ pathOp = "editorPathsAreForward"
    /\ p = <<0, 1>>
    /\ q = <<0>>
    /\ pathResult = ReturnedBoolean(TRUE)

\* C13: collapseSelectionToStart(S) is collapsed at mapSelectionToRange(S)
\* .start and collapseSelectionToEnd(S) at .end; the same collapse applied a
\* second time returns an equal selection; a collapsed S is returned as is.
C13_CollapseToRangeBoundIsIdempotent ==
    LET S == Selection(p, q)
        range == mapSelectionToRange(S)
    IN  /\ pathOp = "collapseSelectionToStart" =>
               /\ pathResult.selection = Selection(range.start, range.start)
               /\ isCollapsedSelection(pathResult.selection)
               /\ isCollapsedSelection(S) =>
                      pathResult.identical /\ pathResult.selection = S
        /\ pathOp = "collapseSelectionToEnd" =>
               /\ pathResult.selection = Selection(range.end, range.end)
               /\ isCollapsedSelection(pathResult.selection)
               /\ isCollapsedSelection(S) =>
                      pathResult.identical /\ pathResult.selection = S
        /\ pathOp \in {"collapseSelectionToStart twice",
                       "collapseSelectionToEnd twice"} =>
               /\ pathResult.second.selection = pathResult.first.selection
               /\ pathResult.second.identical

C13_Witness ==
    /\ pathOp = "collapseSelectionToStart twice"
    /\ p = <<0, 2>>
    /\ q = <<0, 0>>
    /\ pathResult.first = ReturnedCollapsed(Selection(<<0, 0>>, <<0, 0>>), FALSE)
    /\ pathResult.second = ReturnedCollapsed(Selection(<<0, 0>>, <<0, 0>>), TRUE)

---------------------------------------------------------------------------
(* Calls of setDOMNodePath, and the consistency of the two lookups.        *)

\* useRef(new Map()), twice
MapInit ==
    /\ nodesPathsMapRef = <<>>
    /\ pathsNodesMapRef = <<>>
    /\ mountDiscipline = TRUE
    /\ PathIdle
    /\ ElemIdle
    /\ EditorIdle
    /\ MoveIdle
    /\ DomIdle

\* setDOMNodePath('add', node, path)
SetDOMNodePathAdd ==
    \E node \in DOMNodes, path \in MapPaths :
        /\ nodesPathsMapRef' = MapSet(nodesPathsMapRef, node, path)
        /\ pathsNodesMapRef' = MapSet(pathsNodesMapRef, join(path), node)
        /\ mountDiscipline' =
               /\ mountDiscipline
               /\ node \notin DOMAIN nodesPathsMapRef
               /\ \A other \in DOMAIN nodesPathsMapRef :
                      nodesPathsMapRef[other] # path
        /\ UNCHANGED notMapVars

\* setDOMNodePath('remove', node, path)
SetDOMNodePathRemove ==
    \E node \in DOMNodes, path \in MapPaths :
        /\ nodesPathsMapRef' = MapDelete(nodesPathsMapRef, node)
        /\ pathsNodesMapRef' = MapDelete(pathsNodesMapRef, join(path))
        /\ mountDiscipline' =
               /\ mountDiscipline
               /\ node \in DOMAIN nodesPathsMapRef
               /\ nodesPathsMapRef[node] = path
        /\ UNCHANGED notMapVars

MapNext ==
    \/ SetDOMNodePathAdd
    \/ SetDOMNodePathRemove

SpecMap == MapInit /\ [][MapNext]_vars

\* for every path P a registered node maps to, getDOMNodeByPath(P) is
\* present and getPathByDOMNode of it is P
LookupsConsistent ==
    \A node \in DOMAIN nodesPathsMapRef :
        LET path == nodesPathsMapRef[node]
            found == getDOMNodeByPath(path)
        IN  /\ found.some
            /\ getPathByDOMNode(found.value) = [some |-> TRUE, value |-> path]

\* C1 as stated: after any sequence of setDOMNodePath('add' | 'remove', node,
\* path) calls the two lookup maps are consistent.
C1_ConsistentAfterAnyCalls == LookupsConsistent

\* C1 as amended: the two lookup maps are consistent as long as every call
\* followed the mount / unmount discipline.
C1_ConsistentWhenMountedAndUnmounted == mountDiscipline => LookupsConsistent

C1_Witness ==
    /\ mountDiscipline
    /\ nodesPathsMapRef = <<(<<1, 1>>), (<<11>>)>>
    /\ DOMAIN pathsNodesMapRef = {join(<<1, 1>>), join(<<11>>)}

---------------------------------------------------------------------------
(* TestSetValue with its editor: selection changes and passive effects.    *)

\* TestSetValue mounted: rendered and committed, passive effects not yet run
EditorInit ==
    /\ value = initialValue
    /\ operations = initialOperations
    /\ handlerValue = None
    /\ effectsPending = TRUE
    /\ nodesPathsMap = NodesPathsAfterCommit(initialValue.element)
    /\ changes = <<>>
    /\ unresolvedEvent = FALSE
    /\ PathIdle
    /\ ElemIdle
    /\ MapIdle
    /\ MoveIdle
    /\ DomIdle

\* the scheduler runs the passive effects of the last commit
FlushPassiveEffects ==
    /\ effectsPending
    /\ LET flushed == RunPassiveEffects(value, operations)
       IN  /\ handlerValue' = flushed.handlerValue
           /\ value' = flushed.value
           /\ operations' = flushed.operations
           /\ changes' = flushed.changes
           /\ effectsPending' = flushed.rendered
           /\ nodesPathsMap' =
                  IF flushed.rendered
                  THEN NodesPathsAfterCommit(flushed.value.element)
                  ELSE nodesPathsMap
    /\ unresolvedEvent' = FALSE
    /\ UNCHANGED notEditorVars

\* the document fires selectionchange: the registered listener runs
\* handleDocumentSelectionChange, and onChange is TestSetValue's
\* handleEditorChange. React runs the pending passive effects before it
\* renders the new state.
HandleDocumentSelectionChange ==
    /\ handlerValue.some
    /\ \E selection \in DOMSelections :
        LET base == handlerValue.value
            sladSelection == mapSelectionToSladSelection(selection)
            nextValue == produceSelection(base, sladSelection)
            flushed == IF effectsPending
                       THEN RunPassiveEffects(value, operations)
                       ELSE [handlerValue |-> handlerValue, value |-> value,
                             operations |-> operations, changes |-> <<>>,
                             rendered |-> FALSE]
        IN  /\ unresolvedEvent' = ~sladSelection.some
            /\ IF nextValue.identical /\ base = value
              THEN /\ changes' = <<Change(base, value, nextValue.value)>>
                   /\ UNCHANGED <<value, operations, handlerValue,
                                  effectsPending, nodesPathsMap>>
              ELSE /\ value' = nextValue.value
                   /\ handlerValue' = flushed.handlerValue
                   /\ operations' = flushed.operations
                   /\ changes' = flushed.changes \o
                          <<Change(base, flushed.value, nextValue.value)>>
                   /\ effectsPending' = TRUE
                   /\ nodesPathsMap' =
                          NodesPathsAfterCommit(nextValue.value.element)
    /\ UNCHANGED notEditorVars

EditorNext ==
    \/ FlushPassiveEffects
    \/ HandleDocumentSelectionChange

SpecEditor == EditorInit /\ [][EditorNext]_vars

\* C2: every change is computed from the value produced by the previous
\* change, whatever the interleaving of selectionchange events, operations
\* and re-renders.
C2_EveryChangeFromPreviousValue ==
    \A i \in 1..Len(changes) : changes[i].base = changes[i].previous

\* C15: when a selectionchange cannot be resolved, the editor state is left
\* as it was: the value handed to onChange, if any, is the value that was
\* stored, with its selection and its element.
C15_UnresolvedEventLeavesValue ==
    unresolvedEvent =>
        /\ changes # <<>> =>
               changes[Len(changes)].next = changes[Len(changes)].previous
        /\ value.selection = changes[Len(changes)].previous.selection

---------------------------------------------------------------------------
(* Calls of movePath and moveSelection, once and twice in a row.           *)

MoveInit ==
    /\ moveArg \in MoveSelections
    /\ moveDeltas = <<>>
    /\ moveOp = "none"
    /\ moveResult = NoResult
    /\ PathIdle
    /\ ElemIdle
    /\ MapIdle
    /\ EditorIdle
    /\ DomIdle

\* movePath(offset)(selection.anchor)
CallMovePath ==
    /\ moveOp = "none"
    /\ \E offset \in Deltas :
        /\ moveDeltas' = <<offset>>
        /\ moveResult' = movePath(offset, moveArg.anchor)
    /\ moveOp' = "movePath"
    /\ UNCHANGED <<moveArg, notMoveVars>>

\* movePath(offset)(the path returned by the first call)
CallMovePathAgain ==
    /\ moveOp = "movePath"
    /\ moveResult.ok
    /\ \E offset \in Deltas :
        /\ moveDeltas' = Append(moveDeltas, offset)
        /\ moveResult' = movePath(offset, moveResult.path)
    /\ moveOp' = "movePath twice"
    /\ UNCHANGED <<moveArg, notMoveVars>>

\* moveSelection(offset)(selection)
CallMoveSelection ==
    /\ moveOp = "none"
    /\ \E offset \in Deltas :
        /\ moveDeltas' = <<offset>>
        /\ moveResult' = moveSelection(offset, moveArg)
    /\ moveOp' = "moveSelection"
    /\ UNCHANGED <<moveArg, notMoveVars>>

\* moveSelection(offset)(the selection returned by the first call)
CallMoveSelectionAgain ==
    /\ moveOp = "moveSelection"
    /\ moveResult.ok
    /\ \E offset \in Deltas :
        /\ moveDeltas' = Append(moveDeltas, offset)
        /\ moveResult' = moveSelection(offset, moveResult.selection)
    /\ moveOp' = "moveSelection twice"
    /\ UNCHANGED <<moveArg, notMoveVars>>

MoveNext ==
    \/ CallMovePath
    \/ CallMovePathAgain
    \/ CallMoveSelection
    \/ CallMoveSelectionAgain

SpecMove == MoveInit /\ [][MoveNext]_vars

\* C11: when no intermediate last index is negative, moving by d1 and then
\* by d2 gives what moving once by d1 + d2 gives, for movePath on a path and
\* for moveSelection on a selection.
C11_MovesComposeAdditively ==
    /\ (moveOp = "movePath twice" /\ moveResult.ok) =>
           moveResult = movePath(moveDeltas[1] + moveDeltas[2], moveArg.anchor)
    /\ (moveOp = "moveSelection twice" /\ moveResult.ok) =>
           moveResult = moveSelection(moveDeltas[1] + moveDeltas[2], moveArg)

C11_Witness ==
    /\ moveOp = "moveSelection twice"
    /\ moveArg = Selection(<<0, 0, 0>>, <<0, 0, 2>>)
    /\ moveDeltas = <<2, 0 - 1>>
    /\ moveResult = ReturnedSelection(Selection(<<0, 0, 1>>, <<0, 0, 3>>))

\* C12: moveSelection(delta)(S) fails exactly when the last index of the
\* anchor or of the focus plus delta is negative; otherwise it returns S with
\* only the two last indices increased by delta, so no index is negative and
\* the difference of the two last indices is kept.
C12_MoveSelectionShiftsLastIndices ==
    moveOp = "moveSelection" =>
        LET delta == moveDeltas[1]
            anchor == moveArg.anchor
            focus == moveArg.focus
            moved == moveResult.selection
        IN  IF anchor[Len(anchor)] + delta < 0 \/ focus[Len(focus)] + delta < 0
            THEN ~moveResult.ok
            ELSE /\ moveResult.ok
                 /\ moved.anchor =
                        [anchor EXCEPT ![Len(anchor)] = @ + delta]
                 /\ moved.focus = [focus EXCEPT ![Len(focus)] = @ + delta]
                 /\ \A i \in 1..Len(moved.anchor) : moved.anchor[i] >= 0
                 /\ \A i \in 1..Len(moved.focus) : moved.focus[i] >= 0
                 /\ moved.focus[Len(focus)] - moved.anchor[Len(anchor)] =
                        focus[Len(focus)] - anchor[Len(anchor)]

C12_Witness ==
    /\ moveOp = "moveSelection"
    /\ moveArg = Selection(<<0, 0, 0>>, <<0, 0, 2>>)
    /\ moveDeltas = <<1>>
    /\ moveResult = ReturnedSelection(Selection(<<0, 0, 1>>, <<0, 0, 3>>))

---------------------------------------------------------------------------
(* Mapping a DOM selection to a selection through the node -> path lookup. *)

\* the paths the lookup holds, and the lookups drawn
LookupPaths == {<<>>, <<0>>, <<0, 1>>}

Lookups ==
    UNION {[registered -> LookupPaths] : registered \in SUBSET DOMNodes}

\* the DOM selections handed to the mapping functions
NullableDOMNodes == {None} \cup {Some(node) : node \in DOMNodes}

HostSelections ==
    {DOMSelection(anchorNode, anchorOffset, focusNode, focusOffset) :
        anchorNode \in NullableDOMNodes, anchorOffset \in 0..MaxOffset,
        focusNode \in NullableDOMNodes, focusOffset \in 0..MaxOffset}

\* both editors rendered the same nodes: each holds the same node -> path map
DomInit ==
    /\ nodesPathsMapRef \in Lookups
    /\ nodesPathsMap = nodesPathsMapRef
    /\ pathsNodesMapRef = <<>>
    /\ mountDiscipline = FALSE
    /\ value = initialValue
    /\ operations = <<>>
    /\ handlerValue = None
    /\ effectsPending = FALSE
    /\ changes = <<>>
    /\ unresolvedEvent = FALSE
    /\ domSelection = NullSelection
    /\ domOp = "none"
    /\ domResult = None
    /\ PathIdle
    /\ ElemIdle
    /\ MoveIdle

\* mapDOMSelectionToSelection(getPathByDOMNode)(selection)
CallMapDOMSelectionToSelection ==
    /\ domOp = "none"
    /\ \E selection \in HostSelections :
        /\ domSelection' = selection
        /\ domResult' =
               mapDOMSelectionToSelection(
                   [node \in DOMNodes |-> getPathByDOMNode(node)], selection)
    /\ domOp' = "mapDOMSelectionToSelection"
    /\ UNCHANGED notDomVars

\* mapSelectionToSladSelection(selection)
CallMapSelectionToSladSelection ==
    /\ domOp = "none"
    /\ \E selection \in HostSelections \cup {NullSelection} :
        /\ domSelection' = selection
        /\ domResult' = mapSelectionToSladSelection(selection)
    /\ domOp' = "mapSelectionToSladSelection"
    /\ UNCHANGED notDomVars

DomNext ==
    \/ CallMapDOMSelectionToSelection
    \/ CallMapSelectionToSladSelection

SpecDOMSelection == DomInit /\ [][DomNext]_vars

\* the node is missing, or the lookup does not know it
UnknownNode(lookup, node) == ~node.some \/ node.value \notin DOMAIN lookup

\* C14: mapping a DOM selection yields absent exactly when the anchor node
\* or the focus node is missing or unknown to the lookup, and otherwise the
\* selection of the two nodes' paths with the two offsets appended; the
\* lookup is left as it was.
C14_DOMSelectionMapsThroughLookup ==
    [][domOp' # domOp =>
          LET selection == domSelection'
              lookup == nodesPathsMapRef
              absent == \/ "null" \in DOMAIN selection
                        \/ UnknownNode(lookup, selection.anchorNode)
                        \/ UnknownNode(lookup, selection.focusNode)
          IN  /\ absent <=> ~domResult'.some
              /\ ~absent =>
                     domResult'.value =
                         Selection(
                             lookup[selection.anchorNode.value] \o
                                 <<selection.anchorOffset>>,
                             lookup[selection.focusNode.value] \o
                                 <<selection.focusOffset>>)
              /\ nodesPathsMapRef' = nodesPathsMapRef
              /\ nodesPathsMap' = nodesPathsMap]_vars

C14_Witness ==
    /\ domOp = "mapDOMSelectionToSelection"
    /\ nodesPathsMapRef = <<(<<0>>), (<<0, 1>>)>>
    /\ domSelection = DOMSelection(Some(1), 1, Some(2), 0)
    /\ domResult = Some(Selection(<<0, 1>>, <<0, 1, 0>>))

====
